---- MODULE Spec2Model ----
(***************************************************************************)
(* Model of grond's bootstrap-ensemble optimiser (src/src/core.py):        *)
(* Problem.make_bootstrap_weights / get_bootstrap_weights,                 *)
(* Problem.dump_problem_data, load_problem_data, analyse, solve, harvest.  *)
(*                                                                         *)
(* Conventions.  Python's None is the empty tuple <<>> and a present value *)
(* v is <<v>>.  Arrays indexed from 0 in the source are functions on       *)
(* 0..n-1 here; a parameter vector x is a sequence (it is built with       *)
(* list.append in the source).  Float values are drawn from the finite set *)
(* Floats; NaN is a value of its own.  A mean is kept as the exact         *)
(* fraction <<sum, count>> and a variance as the integer                   *)
(* count*sum(x^2) - sum(x)^2, which is zero exactly when the variance is.  *)
(***************************************************************************)
EXTENDS Integers, Sequences, FiniteSets, TLC

(***************************************************************************)
(* Bounds of the model.                                                    *)
(***************************************************************************)
NBootstrap == 1
NTargets == 2
MaxIter == 10
MaxTries == 1
MaxAnalyse == 3
MaxModels == 3
MaxNBest == 2
MaxEvents == 2
MaxGoIter == 2
MaxHarvestBootstrap == 3

None == <<>>
Some(v) == <<v>>
Get(o) == o[1]

NaN == 0 - 1
IsNaN(v) == v = NaN

Floats == 0 .. 2

Range0(n) == 0 .. (n - 1)

RECURSIVE SumOver(_, _)
SumOver(f, S) ==
    IF S = {} THEN 0
    ELSE LET e == CHOOSE e \in S : TRUE IN f[e] + SumOver(f, S \ {e})

NanSum(a) == SumOver(a, {t \in DOMAIN a : ~IsNaN(a[t])})

(***************************************************************************)
(* The problem contract (grond's problem classes are not part of the       *)
(* sources at hand; their behaviour is taken from the specification).      *)
(***************************************************************************)
\* problem.bounds(): one free parameter, with bounds (0, 1)
xbounds == << <<0, 1>> >>

npar == Len(xbounds)

InBounds(v, i) == xbounds[i][1] <= v /\ v <= xbounds[i][2]

WithinBounds(x) == \A i \in 1 .. npar : InBounds(x[i], i)

RandomUniform == {x \in [1 .. npar -> Floats] : WithinBounds(x)}

ProblemData == {"clean", "partial", "allnan"}

BadTargets(data, v) ==
    CASE data = "clean" -> {}
      [] data = "partial" -> IF v = 0 THEN {NTargets} ELSE {}
      [] data = "allnan" -> IF v = 0 THEN {NTargets} ELSE 1 .. NTargets

MisfitValue(v, t) ==
    CASE v = 0 -> 2 * t - 1
      [] v = 1 -> IF t < 3 THEN 3 - t ELSE t
      [] OTHER -> 3

\* the normalisation of target t: the norm of the observed trace, or, with
\* flip_norm, that of the synthetic trace
NormValue(flip_norm, v, t) == IF flip_norm THEN 1 + v + t ELSE 4 + t

EvaluateProblem(data, flip_norm, x) ==
    [ms |-> [t \in 1 .. NTargets |->
                IF t \in BadTargets(data, x[1]) THEN NaN ELSE MisfitValue(x[1], t)],
     ns |-> [t \in 1 .. NTargets |->
                IF t \in BadTargets(data, x[1]) THEN NaN ELSE NormValue(flip_norm, x[1], t)]]

Evaluate(data, x) == EvaluateProblem(data, FALSE, x)

GlobalMisfit(ms, ns) == NanSum(ms)

BootstrapMisfit(ws, ms, ns) ==
    [b \in DOMAIN ws |->
        NanSum([t \in 1 .. NTargets |-> IF IsNaN(ms[t]) THEN NaN ELSE ws[b][t] * ms[t]])]

(***************************************************************************)
(* Problem.make_bootstrap_weights.  stream is the table of the values that *)
(* a generator seeded with 23 yields for randint(0, ntargets), read        *)
(* cyclically; pos is the number of values the process has drawn before    *)
(* the call.  The source constructs RandomState(23) in every call, so the  *)
(* values are read from the start of the table whatever pos is.            *)
(***************************************************************************)
StreamLen(nbootstrap, ntargets) == nbootstrap * ntargets + 1

Streams(nbootstrap, ntargets) ==
    [1 .. StreamLen(nbootstrap, ntargets) -> Range0(ntargets)]

Stream23 ==
    [k \in 1 .. StreamLen(NBootstrap, NTargets) |-> ((k - 1) \div NTargets) % NTargets]

\* mutant of RandomState: the generator is shared and not seeded anew
RandomState_Shared(pos) == pos

\* rstate = num.random.RandomState(23): the position draws start from
RandomState(pos) == 0

\* mutant of Histogram: the bin edges are shifted by one
Histogram_Shifted(ii, nbins) ==
    [t \in 1 .. nbins |-> Cardinality({k \in DOMAIN ii : ii[k] = t})]

\* num.histogram(ii, ntargets, (-0.5, ntargets - 0.5))[0]
Histogram(ii, nbins) ==
    [t \in 1 .. nbins |-> Cardinality({k \in DOMAIN ii : ii[k] = t - 1})]

MakeBootstrapWeights(p, stream, nbootstrap, pos) ==
    LET ntargets == p.ntargets
        start == RandomState(pos)
    IN [ibootstrap \in 1 .. nbootstrap |->
           LET ii == [k \in 1 .. ntargets |->
                         stream[((start + (ibootstrap - 1) * ntargets + k - 1)
                                 % Len(stream)) + 1]]
           IN Histogram(ii, ntargets)]

VARIABLES
    pc,
    problem,
    rstream,
    xs_inject,
    niter_uniform,
    niter_transition,
    niter_explorative,
    niter_non_explorative,
    sampler_distribution,
    rundir,
    iiter,
    nlinks,
    chains_m,
    chains_i,
    x,
    xhist,
    isbad_mask,
    accept_sum,
    accept_hist,
    mbx,
    sbx,
    mxs,
    covs,
    ntries_preconstrain,
    file_x,
    file_misfits,
    ndraws,
    wproblem,
    returned,
    an_niter,
    an_iiter,
    mss,
    nbest,
    force,
    weed,
    dumpdir,
    xs,
    misfits,
    ibests_list,
    ibests,
    dumped,
    go_pc,
    g_data,
    events,
    ev_pc,
    rundirs,
    users

args == <<xs_inject, niter_uniform, niter_transition, niter_explorative,
          niter_non_explorative, sampler_distribution, rundir, rstream>>

locals == <<iiter, nlinks, chains_m, chains_i, x, xhist, isbad_mask, accept_sum,
            accept_hist, mbx, sbx, mxs, covs, ntries_preconstrain>>

files == <<file_x, file_misfits>>

weights_vars_rest == <<wproblem, returned>>

weights_vars == <<ndraws, weights_vars_rest>>

analyse_vars == <<an_niter, an_iiter, mss>>

harvest_vars == <<nbest, force, weed, dumpdir, xs, misfits, ibests_list, ibests, dumped>>

go_vars == <<go_pc, g_data, events, ev_pc, rundirs, users>>

others == <<weights_vars, analyse_vars, harvest_vars, go_vars>>

vars == <<pc, problem, args, locals, files, others>>

WeightsIdle == wproblem = None /\ returned = None

AnalyseIdle == an_niter = 0 /\ an_iiter = 0 /\ mss = <<>>

HarvestIdle ==
    /\ nbest = 0
    /\ force = FALSE
    /\ weed = 0
    /\ dumpdir = None
    /\ xs = None
    /\ misfits = None
    /\ ibests_list = <<>>
    /\ ibests = <<>>
    /\ dumped = <<>>

GoIdle ==
    /\ go_pc = "idle"
    /\ g_data = <<>>
    /\ events = <<>>
    /\ ev_pc = <<>>
    /\ rundirs = <<>>
    /\ users = <<>>

(***************************************************************************)
(* solve: the values fixed before the loop.                                *)
(***************************************************************************)
\* mutant of nlinks_cap: the array without the slot for the incoming entry
nlinks_cap_NoSpareSlot == 8 * npar

nlinks_cap == 8 * npar + 1

nchains == 1 + NBootstrap

niter_inject == Len(xs_inject)

niter == niter_inject + niter_uniform + niter_explorative + niter_non_explorative

(***************************************************************************)
(* numpy helpers used by solve.                                            *)
(***************************************************************************)
\* num.argsort of a[0..n-1]; for the fewer than 17 elements sorted here numpy's
\* default sort is an insertion sort, which keeps equal elements in order.
SortRank(a, n, j) ==
    Cardinality({k \in Range0(n) : a[k] < a[j]})
    + Cardinality({k \in Range0(n) : k < j /\ a[k] = a[j]})

Argsort(a, n) == [r \in Range0(n) |-> CHOOSE j \in Range0(n) : SortRank(a, n, j) = r]

\* num.argmin: the first index holding the minimum
Argmin(a) ==
    CHOOSE j \in DOMAIN a :
        /\ \A k \in DOMAIN a : a[j] <= a[k]
        /\ \A k \in DOMAIN a : k < j => a[j] < a[k]

\* num.mean(xs, axis=0) of the vectors xs[k], k \in D, as fractions <<sum, count>>
Mean(vs, D) ==
    [i \in 1 .. npar |-> <<SumOver([k \in D |-> vs[k][i]], D), Cardinality(D)>>]

\* num.std(xs, axis=0), as count*sum(x^2) - sum(x)^2 per component
Std(vs, D) ==
    [i \in 1 .. npar |->
        Cardinality(D) * SumOver([k \in D |-> vs[k][i] * vs[k][i]], D)
        - SumOver([k \in D |-> vs[k][i]], D) * SumOver([k \in D |-> vs[k][i]], D)]

\* num.cov(xs.T), as count*sum(x_i x_j) - sum(x_i) sum(x_j) per pair of components
Cov(vs, D) ==
    [i \in 1 .. npar |-> [j \in 1 .. npar |->
        Cardinality(D) * SumOver([k \in D |-> vs[k][i] * vs[k][j]], D)
        - SumOver([k \in D |-> vs[k][i]], D) * SumOver([k \in D |-> vs[k][j]], D)]]

(***************************************************************************)
(* solve: initial state.                                                   *)
(***************************************************************************)
Zeros(n) == [k \in Range0(n) |-> 0]

ZeroVector == [i \in 1 .. npar |-> 0]

\* the iteration budgets <<inject, uniform, transition, explorative,
\* non-explorative>> of the runs explored
Budgets ==
    {<<0, 0, 0, 0, 0>>,
     <<0, 5, 0, 0, 0>>,
     <<1, 0, 1, 1, 0>>,
     <<2, 3, 2, 4, 1>>,
     <<0, 5, 1, 2, 3>>,
     <<0, MaxIter, 0, 1, 0>>}

InjectArrays(n) == [1 .. n -> [1 .. npar -> Floats]]

NewProblem(data, ntargets, nbootstrap) ==
    [data |-> data,
     ntargets |-> ntargets,
     nbootstrap |-> nbootstrap,
     flip_norm |-> FALSE,
     bootstrap_weights |-> None,
     analysis_result |-> [t \in 1 .. ntargets |-> None]]

SolveLocals ==
    /\ iiter = 0
    /\ nlinks = 0
    /\ chains_m = [r \in Range0(nchains) |-> Zeros(nlinks_cap)]
    /\ chains_i = [r \in Range0(nchains) |-> Zeros(nlinks_cap)]
    /\ x = <<>>
    /\ xhist = [k \in Range0(niter) |-> ZeroVector]
    /\ isbad_mask = None
    /\ accept_sum = Zeros(nchains)
    /\ accept_hist = Zeros(niter)
    /\ mbx = None
    /\ sbx = None
    /\ mxs = None
    /\ covs = None
    /\ ntries_preconstrain = 0

SolveEntry ==
    /\ pc = (IF niter > 0 THEN "draw" ELSE "done")
    /\ SolveLocals

\* the state of solve's arguments, locals and files while solve is not run
SolveIdle ==
    /\ xs_inject = <<>>
    /\ niter_uniform = 0
    /\ niter_transition = 0
    /\ niter_explorative = 0
    /\ niter_non_explorative = 0
    /\ sampler_distribution = "multivariate_normal"
    /\ rundir = FALSE
    /\ SolveLocals

Init ==
    /\ GoIdle
    /\ problem \in {NewProblem(data, NTargets, NBootstrap) : data \in ProblemData}
    /\ rstream = Stream23
    /\ ndraws = 0
    /\ WeightsIdle
    /\ AnalyseIdle
    /\ HarvestIdle
    /\ \E b \in Budgets :
           /\ xs_inject \in InjectArrays(b[1])
           /\ niter_uniform = b[2]
           /\ niter_transition = b[3]
           /\ niter_explorative = b[4]
           /\ niter_non_explorative = b[5]
    /\ sampler_distribution \in {"multivariate_normal", "normal"}
    /\ rundir \in BOOLEAN
    /\ file_x = None
    /\ file_misfits = None
    /\ SolveEntry

(***************************************************************************)
(* solve: obtaining a candidate (lines 936-997).                           *)
(***************************************************************************)
InTransition ==
    /\ niter_inject + niter_uniform <= iiter
    /\ iiter < niter_inject + niter_uniform + niter_transition

\* factor as the fraction <<numerator, denominator>>
factor ==
    IF InTransition
    THEN <<4 * (niter_transition - (iiter - niter_uniform - niter_inject)), niter_transition>>
    ELSE <<1, 1>>

\* mutant of jchoice: the chain with the largest accept count
jchoice_MostAccepted == Argmin([r \in Range0(nchains) |-> 0 - accept_sum[r]])

jchoice == Argmin(accept_sum)

\* the centres xb the draw may use, as vectors of fractions
Centres ==
    IF iiter < niter_inject + niter_uniform + niter_transition + niter_explorative
    THEN {[i \in 1 .. npar |-> <<xhist[chains_i[jchoice][ichoice]][i], 1>>] :
              ichoice \in Range0(nlinks)}
    ELSE {Get(mxs)[jchoice]}

\* the values a normal draw around the fraction c with variance var can give:
\* the centre itself when the variance is zero, any float otherwise
NormalDraws(c, var) ==
    IF var = 0
    THEN {v \in Floats : v * c[2] = c[1]}
    ELSE Floats

\* num.random.multivariate_normal(xb, factor*covs[jchoice]), repeated until the
\* draw lies within the bounds
MultivariateNormalDraws(xb) ==
    {vs \in [1 .. npar -> Floats] :
        /\ \A i \in 1 .. npar :
               vs[i] \in NormalDraws(xb[i], factor[1] * Get(covs)[jchoice][i][i])
        /\ WithinBounds(vs)}

\* num.random.normal(xb[i], sqrt(factor)*sbx[i]) per parameter, each repeated
\* until it lies within its bounds
NormalDrawsPerParameter(xb) ==
    {vs \in [1 .. npar -> Floats] :
        \A i \in 1 .. npar :
            /\ vs[i] \in NormalDraws(xb[i], factor[1] * Get(sbx)[i])
            /\ InBounds(vs[i], i)}

UniformDraw == mbx = None \/ iiter < niter_inject + niter_uniform

\* the values x can hold when preconstrain is called
Candidates ==
    IF UniformDraw
    THEN RandomUniform
    ELSE IF sampler_distribution = "multivariate_normal"
         THEN UNION {MultivariateNormalDraws(xb) : xb \in Centres}
         ELSE UNION {{x \o vs : vs \in NormalDrawsPerParameter(xb)} : xb \in Centres}

Inject ==
    /\ pc = "draw"
    /\ iiter < niter_inject
    /\ x' = xs_inject[iiter + 1]
    /\ ntries_preconstrain' = 0
    /\ pc' = "eval"
    /\ UNCHANGED <<others, problem, args, files, iiter, nlinks, chains_m, chains_i, xhist,
                   isbad_mask, accept_sum, accept_hist, mbx, sbx, mxs, covs>>

\* a draw that preconstrain returns
Draw ==
    /\ pc = "draw"
    /\ iiter >= niter_inject
    /\ \E cand \in Candidates : x' = cand
    /\ ntries_preconstrain' = 0
    /\ pc' = "eval"
    /\ UNCHANGED <<others, problem, args, files, iiter, nlinks, chains_m, chains_i, xhist,
                   isbad_mask, accept_sum, accept_hist, mbx, sbx, mxs, covs>>

\* a draw that preconstrain answers with Forbidden
DrawForbidden ==
    /\ pc = "draw"
    /\ iiter >= niter_inject
    /\ ntries_preconstrain < MaxTries
    /\ \E cand \in Candidates : x' = cand
    /\ ntries_preconstrain' = ntries_preconstrain + 1
    /\ pc' = "draw"
    /\ UNCHANGED <<others, problem, args, files, iiter, nlinks, chains_m, chains_i, xhist,
                   isbad_mask, accept_sum, accept_hist, mbx, sbx, mxs, covs>>

(***************************************************************************)
(* Problem.get_bootstrap_weights: computed at the first call, then kept.   *)
(***************************************************************************)
GetBootstrapWeights(p, stream, pos) ==
    IF p.bootstrap_weights = None
    THEN [p EXCEPT !.bootstrap_weights =
                       Some(MakeBootstrapWeights(p, stream, p.nbootstrap, pos))]
    ELSE p

(***************************************************************************)
(* Problem.dump_problem_data: x, then ms followed by ns, appended as       *)
(* little-endian float64 values; a file is the sequence of its values.     *)
(***************************************************************************)
AsSeq(a) == [k \in 1 .. Cardinality(DOMAIN a) |-> a[k]]

\* open(fn, 'ab'): the file is created when it does not exist
Contents(f) == IF f = None THEN <<>> ELSE Get(f)

\* mutant of DumpX: the file is opened for writing, not for appending
DumpX_Truncating(f, xv) == Some(AsSeq(xv))

DumpX(f, xv) == Some(Contents(f) \o AsSeq(xv))

\* mutant of DumpMisfits: the normalisations are written before the misfits
DumpMisfits_NsFirst(f, ms, ns) == Some((Contents(f) \o AsSeq(ns)) \o AsSeq(ms))

DumpMisfits(f, ms, ns) == Some((Contents(f) \o AsSeq(ms)) \o AsSeq(ns))

(***************************************************************************)
(* solve: evaluation, the NaN checks, persistence and the insertion into   *)
(* every chain (lines 999-1026).                                           *)
(***************************************************************************)
IsbadMask(ms) == [t \in 1 .. NTargets |-> IsNaN(ms[t])]

Evaluated == Evaluate(problem.data, x)

\* mutant of MaskChanged: the masks are compared at the last target only
MaskChanged_LastTargetOnly ==
    isbad_mask /= None /\ Get(isbad_mask)[NTargets] /= IsbadMask(Evaluated.ms)[NTargets]

\* mutant of MaskChanged: the masks are not compared
MaskChanged_NotTested == FALSE

MaskChanged == isbad_mask /= None /\ Get(isbad_mask) /= IsbadMask(Evaluated.ms)

\* mutant of AllBad: the test for misfits that are all NaN is missing
AllBad_NotTested == FALSE

AllBad == \A t \in 1 .. NTargets : IsNaN(Evaluated.ms[t])

\* return at line 1006: inconsistency in data availability
AbortInconsistent ==
    /\ pc = "eval"
    /\ MaskChanged
    /\ pc' = "aborted"
    /\ UNCHANGED <<others, problem, args, locals, files>>

\* return at line 1014: all target misfit values are NaN
AbortAllNaN ==
    /\ pc = "eval"
    /\ ~MaskChanged
    /\ AllBad
    /\ isbad_mask' = Some(IsbadMask(Evaluated.ms))
    /\ pc' = "aborted"
    /\ UNCHANGED <<others, problem, args, files, iiter, nlinks, chains_m, chains_i, x, xhist,
                   accept_sum, accept_hist, mbx, sbx, mxs, covs, ntries_preconstrain>>

Insert ==
    /\ pc = "eval"
    /\ ~MaskChanged
    /\ ~AllBad
    /\ isbad_mask' = Some(IsbadMask(Evaluated.ms))
    /\ IF rundir
       THEN /\ file_x' = DumpX(file_x, x)
            /\ file_misfits' = DumpMisfits(file_misfits, Evaluated.ms, Evaluated.ns)
       ELSE UNCHANGED files
    /\ problem' = GetBootstrapWeights(problem, rstream, ndraws)
    /\ LET m == GlobalMisfit(Evaluated.ms, Evaluated.ns)
           ms == BootstrapMisfit(Get(problem'.bootstrap_weights), Evaluated.ms, Evaluated.ns)
       IN /\ chains_m' = [r \in Range0(nchains) |->
                             [chains_m[r] EXCEPT ![nlinks] = IF r = 0 THEN m ELSE ms[r]]]
          /\ chains_i' = [r \in Range0(nchains) |-> [chains_i[r] EXCEPT ![nlinks] = iiter]]
    /\ nlinks' = nlinks + 1
    /\ pc' = "rank"
    /\ ndraws' = ndraws + (IF problem.bootstrap_weights = None
                            THEN problem.nbootstrap * problem.ntargets ELSE 0)
    /\ UNCHANGED <<weights_vars_rest, analyse_vars, harvest_vars, args, go_vars, iiter, x, xhist,
                   accept_sum, accept_hist, mbx, sbx, mxs, covs, ntries_preconstrain>>

(***************************************************************************)
(* solve: the resort of every chain, the drop of the worst entry of a full *)
(* chain, the accept counts, the sample history and the statistics         *)
(* (lines 1028-1073, 1121).                                                *)
(***************************************************************************)
\* a[:n] = a[isort]
Permuted(a, isort, n) == [k \in DOMAIN a |-> IF k < n THEN a[isort[k]] ELSE a[k]]

\* mutant of Sorted_m: every chain is reordered by the ranking of the global chain
Sorted_m_GlobalOrder(r) == Permuted(chains_m[r], Argsort(chains_m[0], nlinks), nlinks)

Sorted_m(r) == Permuted(chains_m[r], Argsort(chains_m[r], nlinks), nlinks)

\* mutant of Sorted_i: the sample indices of every chain follow the ranking
\* of the global chain
Sorted_i_GlobalOrder(r) == Permuted(chains_i[r], Argsort(chains_m[0], nlinks), nlinks)

\* mutant of Sorted_i: the misfits are reordered, the sample indices are not
Sorted_i_NotPermuted(r) == chains_i[r]

Sorted_i(r) == Permuted(chains_i[r], Argsort(chains_m[r], nlinks), nlinks)

\* mutant of Trimmed: a full chain keeps its last entry
Trimmed_NoDrop == nlinks

\* nlinks after the drop of the last entry of full chains
Trimmed == IF nlinks = nlinks_cap THEN nlinks - 1 ELSE nlinks

accept ==
    [r \in Range0(nchains) |->
        IF nlinks = nlinks_cap
        THEN (IF Sorted_i(r)[nlinks_cap - 1] /= iiter THEN 1 ELSE 0)
        ELSE 1]

\* the (chain, position) pairs of chains_i[:, :nlinks].ravel()
Ravel(n) == Range0(nchains) \X Range0(n)

RankUpdate ==
    /\ chains_m' = [r \in Range0(nchains) |-> Sorted_m(r)]
    /\ chains_i' = [r \in Range0(nchains) |-> Sorted_i(r)]
    /\ nlinks' = Trimmed
    /\ accept_sum' = [r \in Range0(nchains) |-> accept_sum[r] + accept[r]]
    /\ accept_hist' = [accept_hist EXCEPT ![iiter] = SumOver(accept, Range0(nchains))]

\* mutant of StatsThreshold: statistics from chains a quarter full
StatsThreshold_Quarter == (nlinks_cap - 1) \div 4

\* (nlinks_cap-1)/2
StatsThreshold == (nlinks_cap - 1) \div 2

\* xhist[iiter, :] = x raises for a vector that has not npar components
Rank ==
    /\ pc = "rank"
    /\ Len(x) = npar
    /\ RankUpdate
    /\ xhist' = [xhist EXCEPT ![iiter] = x]
    /\ IF nlinks' > StatsThreshold
       THEN LET bxs == [q \in Ravel(nlinks') |-> xhist'[chains_i'[q[1]][q[2]]]]
                cxs(i) == [k \in Range0(nlinks') |-> xhist'[chains_i'[i][k]]]
            IN /\ mbx' = Some(Mean(bxs, Ravel(nlinks')))
               /\ sbx' = Some(Std(bxs, Ravel(nlinks')))
               /\ mxs' = Some([i \in Range0(nchains) |-> Mean(cxs(i), Range0(nlinks'))])
               /\ covs' = Some([i \in Range0(nchains) |-> Cov(cxs(i), Range0(nlinks'))])
       ELSE UNCHANGED <<mbx, sbx, mxs, covs>>
    /\ iiter' = iiter + 1
    /\ pc' = IF iiter + 1 < niter THEN "draw" ELSE "done"
    /\ UNCHANGED <<others, problem, args, files, x, isbad_mask, ntries_preconstrain>>

RankError ==
    /\ pc = "rank"
    /\ Len(x) /= npar
    /\ RankUpdate
    /\ pc' = "error"
    /\ UNCHANGED <<others, problem, args, files, iiter, x, xhist, isbad_mask, mbx, sbx, mxs, covs,
                   ntries_preconstrain>>

Next ==
    \/ Inject
    \/ Draw
    \/ DrawForbidden
    \/ AbortInconsistent
    \/ AbortAllNaN
    \/ Insert
    \/ Rank
    \/ RankError

Spec == Init /\ [][Next]_vars

(***************************************************************************)
(* Properties of solve.                                                    *)
(***************************************************************************)
IterationComplete == pc \in {"draw", "done"}

Min(a, b) == IF a <= b THEN a ELSE b

\* the misfit of the parameter vector xv under the ranking of chain r
ChainMisfit(r, xv) ==
    LET e == Evaluate(problem.data, xv)
    IN IF r = 0
       THEN GlobalMisfit(e.ms, e.ns)
       ELSE BootstrapMisfit(Get(problem.bootstrap_weights), e.ms, e.ns)[r]

\* C1: at every point of solve every chain (the global one and each bootstrap
\* one) holds at most nlinks_cap = 8*npar + 1 entries, all of them inside the
\* chain arrays.
C1_LedgerWithinCap ==
    /\ nlinks <= 8 * npar + 1
    /\ \A r \in Range0(nchains) :
           /\ Range0(nlinks) \subseteq DOMAIN chains_m[r]
           /\ Range0(nlinks) \subseteq DOMAIN chains_i[r]

\* a chain that holds nlinks_cap entries, before its worst entry is dropped
C1_Witness == pc = "rank" /\ nlinks = 8 * npar + 1

\* C2: at the end of every completed iteration the live entries of every chain
\* are in ascending order of that chain's misfit, and chains_i[r][j] is the
\* index of the sample whose misfit is chains_m[r][j].
C2_SortedAndPaired ==
    IterationComplete =>
        \A r \in Range0(nchains) :
            /\ \A j \in Range0(nlinks - 1) : chains_m[r][j] <= chains_m[r][j + 1]
            /\ \A j \in Range0(nlinks) :
                   /\ chains_i[r][j] \in Range0(iiter)
                   /\ chains_m[r][j] = ChainMisfit(r, xhist[chains_i[r][j]])

\* a completed iteration whose resort moved a later sample in front of an
\* earlier one, in a chain of distinct misfits
C2_Witness ==
    /\ IterationComplete
    /\ nlinks >= 3
    /\ \E r \in Range0(nchains) :
           /\ chains_i[r][0] > chains_i[r][1]
           /\ chains_m[r][0] < chains_m[r][nlinks - 1]

\* C3: a run that is not aborted performs as many iterations as the five
\* budgets sum to, each phase receiving its budget.
C3_IterationsAreSumOfBudgets ==
    pc = "done" =>
        iiter = niter_inject + niter_uniform + niter_transition
                + niter_explorative + niter_non_explorative

\* C4: every parameter vector passed to evaluate has npar components, each
\* within the bounds of its parameter.
C4_EvaluatedWithinBounds ==
    pc = "eval" => Len(x) = npar /\ WithinBounds(x)

\* C9 as claimed: after k completed iterations every chain holds
\* min(k, nlinks_cap) entries, nlinks_cap = 8*npar + 1.
C9_SizeIsMinOfIterationsAndCap ==
    IterationComplete => nlinks = Min(iiter, 8 * npar + 1)

\* C9 amended: after k completed iterations every chain holds min(k, 8*npar)
\* entries: the ledger grows by one per iteration up to 8*npar = nlinks_cap - 1.
C9_SizeIsMinOfIterationsAndCapLessOne ==
    IterationComplete => nlinks = Min(iiter, 8 * npar)

\* a finished run of more iterations than a chain can hold
C9_Witness == pc = "done" /\ iiter > 8 * npar + 1 /\ nlinks = 8 * npar

(***************************************************************************)
(* Problem.copy and Problem.get_bootstrap_weights on a problem and on its  *)
(* copy.                                                                   *)
(***************************************************************************)
\* Problem.copy: the copy starts without cached weights
Copy(p) == [p EXCEPT !.bootstrap_weights = None]

\* the ibootstrap arguments of get_bootstrap_weights: None or a row index
RowChoices(p) == {None} \cup {Some(i) : i \in Range0(p.nbootstrap)}

\* what get_bootstrap_weights(ibootstrap) returns once the weights are cached
Returned(p, ibootstrap) ==
    IF ibootstrap = None
    THEN Get(p.bootstrap_weights)
    ELSE <<Get(p.bootstrap_weights)[Get(ibootstrap) + 1]>>

\* the values a call draws from the generator
Drawn(p) == IF p.bootstrap_weights = None THEN p.nbootstrap * p.ntargets ELSE 0

WeightsInit ==
    /\ GoIdle
    /\ pc = "weights"
    /\ \E data \in ProblemData, ntargets \in 1 .. NTargets, nbootstrap \in 0 .. NBootstrap :
           /\ problem = NewProblem(data, ntargets, nbootstrap)
           /\ rstream \in Streams(nbootstrap, ntargets)
    /\ ndraws = 0
    /\ WeightsIdle
    /\ SolveIdle
    /\ file_x = None
    /\ file_misfits = None
    /\ AnalyseIdle
    /\ HarvestIdle

ProblemCopy ==
    /\ pc = "weights"
    /\ wproblem = None
    /\ wproblem' = Some(Copy(problem))
    /\ UNCHANGED <<pc, problem, args, go_vars, locals, files, ndraws, returned, analyse_vars,
                   harvest_vars>>

CallGetBootstrapWeights ==
    /\ pc = "weights"
    /\ problem' = GetBootstrapWeights(problem, rstream, ndraws)
    /\ ndraws' = ndraws + Drawn(problem)
    /\ \E ibootstrap \in RowChoices(problem) :
           returned' = Some(Returned(problem', ibootstrap))
    /\ UNCHANGED <<pc, args, go_vars, locals, files, wproblem, analyse_vars, harvest_vars>>

CallGetBootstrapWeightsOfCopy ==
    /\ pc = "weights"
    /\ wproblem /= None
    /\ wproblem' = Some(GetBootstrapWeights(Get(wproblem), rstream, ndraws))
    /\ ndraws' = ndraws + Drawn(Get(wproblem))
    /\ \E ibootstrap \in RowChoices(problem) :
           returned' = Some(Returned(Get(wproblem'), ibootstrap))
    /\ UNCHANGED <<pc, problem, args, go_vars, locals, files, analyse_vars, harvest_vars>>

WeightsNext ==
    \/ ProblemCopy
    \/ CallGetBootstrapWeights
    \/ CallGetBootstrapWeightsOfCopy

SpecWeights == WeightsInit /\ [][WeightsNext]_vars

\* the problem instances whose weights have been computed
WithWeights ==
    (IF problem.bootstrap_weights /= None THEN {problem} ELSE {})
    \cup (IF wproblem /= None
          THEN (IF Get(wproblem).bootstrap_weights /= None THEN {Get(wproblem)} ELSE {})
          ELSE {})

\* C5: make_bootstrap_weights(nbootstrap) gives an nbootstrap x ntargets matrix
\* of non-negative integer counts in which every row sums to ntargets.
C5_RowsSumToNTargets ==
    \A p \in WithWeights :
        LET ws == Get(p.bootstrap_weights)
        IN /\ DOMAIN ws = 1 .. p.nbootstrap
           /\ \A b \in 1 .. p.nbootstrap :
                  /\ DOMAIN ws[b] = 1 .. p.ntargets
                  /\ \A t \in 1 .. p.ntargets : ws[b][t] \in Nat
                  /\ SumOver(ws[b], 1 .. p.ntargets) = p.ntargets

\* weights with a target drawn twice and a target never drawn
C5_Witness ==
    /\ problem.bootstrap_weights /= None
    /\ problem.nbootstrap >= 1
    /\ \E t, u \in 1 .. problem.ntargets :
           /\ Get(problem.bootstrap_weights)[1][t] = 0
           /\ Get(problem.bootstrap_weights)[1][u] >= 2

\* C6: the weights are a function of (seed, ntargets, nbootstrap): the problem
\* and its copy, which share them, get the same matrix; and the matrix an
\* instance has computed is the one every later call finds.
C6_WeightsDeterministicAndKept ==
    [][/\ problem.bootstrap_weights /= None
          => problem'.bootstrap_weights = problem.bootstrap_weights
       /\ \A p \in WithWeights : \A q \in WithWeights' :
              p.bootstrap_weights = q.bootstrap_weights
       /\ \A p, q \in WithWeights' : p.bootstrap_weights = q.bootstrap_weights]_vars

\* the problem and its copy have both computed weights that are not uniform,
\* and a call returned them
C6_Witness ==
    /\ Cardinality(WithWeights) = 1
    /\ problem.bootstrap_weights /= None
    /\ wproblem /= None
    /\ problem.nbootstrap >= 1
    /\ ndraws = 2 * problem.nbootstrap * problem.ntargets
    /\ returned = Some(Get(problem.bootstrap_weights))
    /\ \E t \in 1 .. problem.ntargets : Get(problem.bootstrap_weights)[1][t] = 0

(***************************************************************************)
(* analyse (lines 842-895).  A balancing weight is the exact fraction      *)
(* <<numerator, denominator>>; NaN is 0/0.                                 *)
(***************************************************************************)
NaNFraction == <<0, 0>>

RECURSIVE ProductOver(_, _)
ProductOver(f, S) ==
    IF S = {} THEN 1
    ELSE LET e == CHOOSE e \in S : TRUE IN f[e] * ProductOver(f, S \ {e})

\* num.mean(mss, axis=0) times niter: NaN for a target with a NaN value and
\* for a mean over no rows
ColumnSums(rows, n, ntargets) ==
    [t \in 1 .. ntargets |->
        IF n = 0 \/ \E k \in 1 .. n : IsNaN(rows[k][t])
        THEN NaN
        ELSE SumOver([k \in 1 .. n |-> rows[k][t]], 1 .. n)]

\* weights = 1.0 / mean_ms; weights /= nansum(weights) / nansum(isfinite(weights))
BalancingWeights(rows, n, ntargets) ==
    LET sums == ColumnSums(rows, n, ntargets)
        finite == {t \in 1 .. ntargets : ~IsNaN(sums[t])}
        prod == ProductOver(sums, finite)
        total == SumOver([u \in finite |-> prod \div sums[u]], finite)
    IN [t \in 1 .. ntargets |->
           IF t \in finite
           THEN <<Cardinality(finite) * prod, sums[t] * total>>
           ELSE NaNFraction]

\* mutant of ReturnsAtOnce: the test of niter == 0 is missing
ReturnsAtOnce_Never == FALSE

\* if niter == 0: return
ReturnsAtOnce == an_niter = 0

AnalysedProblems ==
    {[NewProblem(data, NTargets, NBootstrap) EXCEPT !.analysis_result = ar] :
        data \in ProblemData,
        ar \in {[t \in 1 .. NTargets |-> None], [t \in 1 .. NTargets |-> Some(<<1, 1>>)]}}

AnalyseInit ==
    /\ GoIdle
    /\ pc = "analyse"
    /\ problem \in AnalysedProblems
    /\ an_niter \in 0 .. MaxAnalyse
    /\ an_iiter = 0
    /\ mss = <<>>
    /\ rstream = Stream23
    /\ ndraws = 0
    /\ WeightsIdle
    /\ SolveIdle
    /\ file_x = None
    /\ file_misfits = None
    /\ HarvestIdle

AnalyseReturn ==
    /\ pc = "analyse"
    /\ ReturnsAtOnce
    /\ pc' = "returned"
    /\ UNCHANGED <<problem, args, locals, files, others>>

\* the copy of the problem with flipped norms, and mss = zeros((niter, ntargets))
AnalyseSetup ==
    /\ pc = "analyse"
    /\ ~ReturnsAtOnce
    /\ wproblem' = Some([Copy(problem) EXCEPT !.flip_norm = TRUE])
    /\ mss' = [k \in 1 .. an_niter |-> [t \in 1 .. problem.ntargets |-> 0]]
    /\ pc' = (IF 0 < an_niter THEN "an_draw" ELSE "an_finish")
    /\ UNCHANGED <<problem, args, go_vars, locals, files, ndraws, returned, an_niter, an_iiter,
                   harvest_vars>>

\* a uniform draw that preconstrain answers with Forbidden
AnalyseForbidden ==
    /\ pc = "an_draw"
    /\ ntries_preconstrain < MaxTries
    /\ ntries_preconstrain' = ntries_preconstrain + 1
    /\ \E cand \in RandomUniform : x' = cand
    /\ UNCHANGED <<pc, problem, args, files, others, iiter, nlinks, chains_m, chains_i,
                   xhist, isbad_mask, accept_sum, accept_hist, mbx, sbx, mxs, covs>>

\* a uniform draw that preconstrain returns, evaluated: _, ms = wproblem.evaluate(x)
AnalyseEvaluate ==
    /\ pc = "an_draw"
    /\ \E cand \in RandomUniform : x' = cand
    /\ ntries_preconstrain' = 0
    /\ mss' = [mss EXCEPT ![an_iiter + 1] =
                   EvaluateProblem(Get(wproblem).data, Get(wproblem).flip_norm, x').ns]
    /\ an_iiter' = an_iiter + 1
    /\ pc' = (IF an_iiter + 1 < an_niter THEN "an_draw" ELSE "an_finish")
    /\ UNCHANGED <<problem, args, go_vars, files, weights_vars, an_niter, harvest_vars, iiter,
                   nlinks, chains_m, chains_i, xhist, isbad_mask, accept_sum, accept_hist,
                   mbx, sbx, mxs, covs>>

\* target.analysis_result = TargetAnalysisResult(balancing_weight=weight)
AnalyseFinish ==
    /\ pc = "an_finish"
    /\ problem' = [problem EXCEPT !.analysis_result =
                       [t \in 1 .. problem.ntargets |->
                           Some(BalancingWeights(mss, an_niter, problem.ntargets)[t])]]
    /\ pc' = "returned"
    /\ UNCHANGED <<args, locals, files, others>>

AnalyseNext ==
    \/ AnalyseReturn
    \/ AnalyseSetup
    \/ AnalyseForbidden
    \/ AnalyseEvaluate
    \/ AnalyseFinish

SpecAnalyse == AnalyseInit /\ [][AnalyseNext]_vars

\* C7: analyse with niter = 0 performs no evaluation and leaves every target's
\* analysis_result and everything else of the problem as it was.
C7_AnalyseZeroIsNoOp ==
    [][an_niter = 0 =>
          /\ problem' = problem
          /\ wproblem' = wproblem
          /\ mss' = mss
          /\ an_iiter' = an_iiter
          /\ x' = x
          /\ (pc = "analyse" => pc' = "returned")]_vars

\* analyse(problem, niter=0) has returned, on a problem that had balancing
\* weights before the call and still has them
C7_Witness ==
    /\ pc = "returned"
    /\ an_niter = 0
    /\ an_iiter = 0
    /\ \A t \in 1 .. problem.ntargets : problem.analysis_result[t] = Some(<<1, 1>>)

(***************************************************************************)
(* load_problem_data (lines 770-794).                                      *)
(***************************************************************************)
\* the size in bytes of a float64
F8 == 8

\* os.fstat(f.fileno()).st_size
StSize(f) == F8 * Len(Get(f))

\* num.fromfile(f, dtype='<f8', count=n): at most n values, from the start
FromFile(f, n) == SubSeq(Get(f), 1, Min(n, Len(Get(f))))

\* the x array: nmodels rows of nparameters values
LoadXs(fx, nparameters) ==
    LET nmodels0 == StSize(fx) \div (nparameters * F8)
        data == FromFile(fx, nmodels0 * nparameters)
        nmodels == Len(data) \div nparameters
    IN [i \in Range0(nmodels) |-> [j \in 1 .. nparameters |-> data[i * nparameters + j]]]

\* the misfits array: data reshaped to rows of 2*ntargets values, the first
\* ntargets of a row copied to the even columns of combi and the others to the
\* odd ones, and combi reshaped to (nmodels, ntargets, 2)
LoadMisfits(fm, nmodels, ntargets) ==
    LET data == FromFile(fm, nmodels * ntargets * 2)
        row(i) == [c \in Range0(ntargets * 2) |-> data[i * ntargets * 2 + c + 1]]
        combi(i) == [c \in Range0(ntargets * 2) |->
                        IF c % 2 = 0
                        THEN row(i)[c \div 2]
                        ELSE row(i)[ntargets + (c - 1) \div 2]]
    IN [i \in Range0(nmodels) |->
           [t \in 1 .. ntargets |-> [k \in Range0(2) |-> combi(i)[2 * (t - 1) + k]]]]

\* data.reshape((nmodels, ntargets*2)) raises unless the sizes agree
Reshapes(fm, nmodels, ntargets) ==
    Len(FromFile(fm, nmodels * ntargets * 2)) = nmodels * ntargets * 2

(***************************************************************************)
(* harvest (lines 1176-1227), run on the files that calls of               *)
(* dump_problem_data have written to a run directory.                      *)
(***************************************************************************)
\* the records a run can persist: a parameter vector with its evaluation, not
\* all of whose misfits are NaN
DumpRecords ==
    {rec \in {[x |-> xv, ms |-> Evaluate(data, xv).ms, ns |-> Evaluate(data, xv).ns] :
                 xv \in [1 .. npar -> Floats], data \in ProblemData} :
        \E t \in 1 .. NTargets : ~IsNaN(rec.ms[t])}

EmptyDir == [x |-> None, misfits |-> None]

\* mutant of Rmtree: the old harvest directory is kept
Rmtree_Keeps(dir) == dir

\* shutil.rmtree(dumpdir)
Rmtree(dir) == None

\* util.ensuredir(dumpdir)
Ensuredir(dir) == IF dir = None THEN Some(EmptyDir) ELSE dir

HarvestInit ==
    /\ GoIdle
    /\ pc = "dump"
    /\ problem \in {NewProblem("clean", NTargets, nb) : nb \in 1 .. MaxHarvestBootstrap}
    /\ rstream = Stream23
    /\ ndraws = 0
    /\ WeightsIdle
    /\ SolveIdle
    /\ AnalyseIdle
    /\ file_x = None
    /\ file_misfits = None
    /\ nbest \in 0 .. MaxNBest
    /\ force \in BOOLEAN
    /\ weed \in 0 .. 2
    /\ dumpdir = None
    /\ xs = None
    /\ misfits = None
    /\ ibests_list = <<>>
    /\ ibests = <<>>
    /\ dumped = <<>>

\* problem.dump_problem_data(rundir, x, ms, ns), called by solve, which runs
\* before the first harvest of a run directory
DumpProblemData ==
    /\ pc = "dump"
    /\ dumpdir = None
    /\ Len(dumped) < MaxModels
    /\ \E rec \in DumpRecords :
           /\ file_x' = DumpX(file_x, rec.x)
           /\ file_misfits' = DumpMisfits(file_misfits, rec.ms, rec.ns)
           /\ dumped' = Append(dumped, rec)
    /\ UNCHANGED <<pc, problem, args, go_vars, locals, weights_vars, analyse_vars, nbest, force,
                   weed, dumpdir, xs, misfits, ibests_list, ibests>>

\* open(fn, 'r') raises for a file that does not exist
HarvestLoadError ==
    /\ pc = "dump"
    /\ file_x = None \/ file_misfits = None
    /\ pc' = "ioerror"
    /\ UNCHANGED <<problem, args, locals, files, others>>

\* xs, misfits = load_problem_data(rundir, problem)
HarvestLoad ==
    /\ pc = "dump"
    /\ file_x /= None /\ file_misfits /= None
    /\ LET loaded == LoadXs(file_x, npar)
       IN /\ Reshapes(file_misfits, Cardinality(DOMAIN loaded), problem.ntargets)
          /\ xs' = Some(loaded)
          /\ misfits' = Some(LoadMisfits(file_misfits, Cardinality(DOMAIN loaded),
                                          problem.ntargets))
    /\ pc' = "loaded"
    /\ UNCHANGED <<problem, args, go_vars, locals, files, weights_vars, analyse_vars, nbest, force,
                   weed, dumpdir, ibests_list, ibests, dumped>>

nmodels == Cardinality(DOMAIN Get(xs))

\* problem.global_misfits(misfits)
gms(p) ==
    [i \in Range0(nmodels) |->
        GlobalMisfit([t \in 1 .. p.ntargets |-> Get(misfits)[i][t][0]],
                     [t \in 1 .. p.ntargets |-> Get(misfits)[i][t][1]])]

\* problem.bootstrap_misfits(misfits, ibootstrap)
bms(p, ibootstrap) ==
    [i \in Range0(nmodels) |->
        BootstrapMisfit(Get(p.bootstrap_weights),
                        [t \in 1 .. p.ntargets |-> Get(misfits)[i][t][0]],
                        [t \in 1 .. p.ntargets |-> Get(misfits)[i][t][1]])[ibootstrap + 1]]

\* mutant of Slice: one entry more than asked for
Slice_OneMore(isort, n, count) == [k \in 1 .. Min(count + 1, n) |-> isort[k - 1]]

\* isort[:count], as a sequence
Slice(isort, n, count) == [k \in 1 .. Min(count, n) |-> isort[k - 1]]

\* raise DirectoryAlreadyExists(dumpdir)
HarvestRaise ==
    /\ pc = "loaded"
    /\ dumpdir /= None
    /\ ~force
    /\ pc' = "raised"
    /\ UNCHANGED <<problem, args, locals, files, others>>

\* the harvest directory made anew, and the nbest best samples of every
\* bootstrap chain and of the global chain (lines 1183-1203); the files that
\* dump_problem_data writes hold one sample at least, so isort[0] exists
HarvestSelect ==
    /\ pc = "loaded"
    /\ dumpdir = None \/ force
    /\ dumpdir' = Ensuredir(IF dumpdir /= None THEN Rmtree(dumpdir) ELSE dumpdir)
    /\ problem' = GetBootstrapWeights(problem, rstream, ndraws)
    /\ ndraws' = ndraws + Drawn(problem)
    /\ ibests_list' =
           [k \in 1 .. problem.nbootstrap + 1 |->
               IF k <= problem.nbootstrap
               THEN Slice(Argsort(bms(problem', k - 1), nmodels), nmodels, nbest)
               ELSE Slice(Argsort(gms(problem'), nmodels), nmodels, nbest)]
    /\ ibests' = [k \in 1 .. problem.nbootstrap |->
                      Argsort(bms(problem', k - 1), nmodels)[0]]
    /\ pc' = "selected"
    /\ UNCHANGED <<args, go_vars, locals, files, weights_vars_rest, analyse_vars, nbest, force, weed,
                   xs, misfits, dumped>>

\* twice num.median(a) of the sequence a (a NaN, here 0, when a is empty)
Median2(a) ==
    LET n == Len(a)
        sorted == [r \in 1 .. n |-> a[Argsort([k \in Range0(n) |-> a[k + 1]], n)[r - 1] + 1]]
    IN IF n = 0 THEN 0
       ELSE IF n % 2 = 1 THEN 2 * sorted[(n + 1) \div 2]
       ELSE sorted[n \div 2] + sorted[n \div 2 + 1]

\* n*n times the square of num.std(a)
Var2(a) ==
    LET n == Len(a)
    IN n * SumOver([k \in 1 .. n |-> a[k] * a[k]], 1 .. n)
       - SumOver(a, 1 .. n) * SumOver(a, 1 .. n)

\* mutant of AboveMedianPlusStd: greater or equal
AboveMedianPlusStd_OrEqual(g, a) ==
    LET n == Len(a)
        d == 2 * n * g - n * Median2(a)
    IN n > 0 /\ d >= 0 /\ d * d >= 4 * Var2(a)

\* g > num.median(a) + num.std(a)
AboveMedianPlusStd(g, a) ==
    LET n == Len(a)
        d == 2 * n * g - n * Median2(a)
    IN n > 0 /\ d > 0 /\ d * d > 4 * Var2(a)

\* g < num.median(a)
BelowMedian(g, a) == Len(a) > 0 /\ 2 * g < Median2(a)

RECURSIVE Concatenate(_)
Concatenate(lists) ==
    IF lists = <<>> THEN <<>> ELSE Head(lists) \o Concatenate(Tail(lists))

RECURSIVE SelectSeqBy(_, _)
SelectSeqBy(q, keep) ==
    IF q = <<>> THEN <<>>
    ELSE (IF Head(q) \in keep THEN <<Head(q)>> ELSE <<>>) \o SelectSeqBy(Tail(q), keep)

RECURSIVE DumpAll(_, _)
DumpAll(dir, q) ==
    IF q = <<>> THEN dir
    ELSE DumpAll([x |-> DumpX(dir.x, Get(xs)[Head(q)]),
                  misfits |-> DumpMisfits(dir.misfits,
                                 [t \in 1 .. problem.ntargets |-> Get(misfits)[Head(q)][t][0]],
                                 [t \in 1 .. problem.ntargets |-> Get(misfits)[Head(q)][t][1]])],
                 Tail(q))

\* the weeding, the concatenation and the dump of the selection (lines 1205-1227)
HarvestDump ==
    /\ pc = "selected"
    /\ LET g == gms(problem)
           gm_best == [k \in 1 .. Len(ibests) |-> g[ibests[k]]]
           ibad == IF weed /= 0
                   THEN {k \in 1 .. Len(ibests) : AboveMedianPlusStd(g[ibests[k]], gm_best)}
                   ELSE {}
           kept == SelectSeqBy([k \in 1 .. Len(ibests_list) |-> k],
                               (1 .. Len(ibests_list)) \ ibad)
           weeded == [k \in 1 .. Len(kept) |-> ibests_list[kept[k]]]
           all == Concatenate(weeded)
           final == IF weed = 2
                    THEN SelectSeqBy(all, {i \in Range0(nmodels) : BelowMedian(g[i], gm_best)})
                    ELSE all
       IN /\ ibests_list' = weeded
          /\ ibests' = final
          /\ dumpdir' = Some(DumpAll(Get(dumpdir), final))
    /\ pc' = "harvested"
    /\ UNCHANGED <<problem, args, go_vars, locals, files, weights_vars, analyse_vars, nbest, force,
                   weed, xs, misfits, dumped>>

\* harvest called once more on the same run directory
HarvestAgain ==
    /\ pc = "harvested"
    /\ pc' = "dump"
    /\ nbest' \in 0 .. MaxNBest
    /\ force' \in BOOLEAN
    /\ weed' \in 0 .. 2
    /\ xs' = None
    /\ misfits' = None
    /\ ibests_list' = <<>>
    /\ ibests' = <<>>
    /\ UNCHANGED <<problem, args, go_vars, locals, files, weights_vars, analyse_vars, dumpdir, dumped>>

HarvestNext ==
    \/ DumpProblemData
    \/ HarvestLoadError
    \/ HarvestLoad
    \/ HarvestRaise
    \/ HarvestSelect
    \/ HarvestDump
    \/ HarvestAgain

SpecHarvest == HarvestInit /\ [][HarvestNext]_vars

HarvestMisfit(k) ==
    IF k <= problem.nbootstrap THEN bms(problem, k - 1) ELSE gms(problem)

SeqRange(q) == {q[k] : k \in 1 .. Len(q)}

\* C10: before any weeding, harvest has one list for each bootstrap chain and
\* one for the global misfit, each of min(nbest, nmodels) distinct samples,
\* no sample outside a list having a lower misfit (of that chain) than one
\* inside it: nbest * (nbootstrap + 1) indices at most.
C10_HarvestSelectsNBestPerChain ==
    (pc = "selected") =>
        /\ Len(ibests_list) = problem.nbootstrap + 1
        /\ SumOver([k \in 1 .. Len(ibests_list) |-> Len(ibests_list[k])],
                   1 .. Len(ibests_list)) <= nbest * (problem.nbootstrap + 1)
        /\ \A k \in 1 .. Len(ibests_list) :
               /\ Len(ibests_list[k]) = Min(nbest, nmodels)
               /\ Cardinality(SeqRange(ibests_list[k])) = Len(ibests_list[k])
               /\ SeqRange(ibests_list[k]) \subseteq Range0(nmodels)
               /\ \A i \in SeqRange(ibests_list[k]) :
                      \A j \in Range0(nmodels) \ SeqRange(ibests_list[k]) :
                          HarvestMisfit(k)[i] <= HarvestMisfit(k)[j]

C10_Witness ==
    /\ pc = "selected"
    /\ nmodels = MaxModels
    /\ nbest >= 1 /\ nbest < nmodels
    /\ problem.nbootstrap >= 1
    /\ ibests_list[1] /= ibests_list[Len(ibests_list)]
    /\ \E i, j \in Range0(nmodels) : gms(problem)[i] /= gms(problem)[j]

(***************************************************************************)
(* Properties of solve: the aborts, the retries, the drop of the worst     *)
(* entry and the proposals.                                                *)
(***************************************************************************)
\* the targets for which the evaluation of xv gives NaN
MaskOf(xv) == IsbadMask(Evaluate(problem.data, xv).ms)

\* what an aborted iteration leaves alone: the files of the run directory,
\* the chains, the sample history and the iteration index
NothingRecorded == UNCHANGED <<file_x, file_misfits, chains_m, chains_i, nlinks, xhist, iiter>>

\* solve has returned: no step follows
Returns(label) == pc' = label /\ pc' \notin {"draw", "eval", "rank"}

\* C11: an evaluation whose NaN mask differs from the mask of the first
\* iteration ends solve there: nothing is persisted or inserted and no
\* iteration follows; so all completed iterations have the mask of the first.
C11_MaskChangeAborts ==
    /\ [](\A k \in Range0(iiter) : MaskOf(xhist[k]) = MaskOf(xhist[0]))
    /\ [](pc \in {"draw", "eval", "rank"} /\ iiter >= 1
             => isbad_mask = Some(MaskOf(xhist[0])))
    /\ [][/\ (pc = "eval" /\ isbad_mask /= None /\ MaskOf(x) /= Get(isbad_mask))
                => Returns("aborted") /\ NothingRecorded
          /\ pc = "aborted" => FALSE]_vars

\* a run aborted after completed iterations that were written to the run
\* directory, on an evaluation with another mask
C11_Witness ==
    /\ pc = "aborted"
    /\ iiter >= 2
    /\ rundir
    /\ Len(Get(file_x)) = iiter * npar
    /\ MaskOf(x) /= MaskOf(xhist[0])
    /\ \E t \in 1 .. NTargets : ~MaskOf(x)[t]

\* C12: an evaluation that gives NaN for every target ends solve there:
\* nothing is persisted or inserted and no iteration follows.
C12_AllNaNAborts ==
    [][/\ (pc = "eval" /\ \A t \in 1 .. NTargets : MaskOf(x)[t])
             => Returns("aborted") /\ NothingRecorded
       /\ (pc = "aborted" /\ \A t \in 1 .. NTargets : MaskOf(x)[t]) => FALSE]_vars

\* a run with a run directory aborted at its first evaluation, all NaN
C12_Witness ==
    /\ pc = "aborted"
    /\ iiter = 0
    /\ rundir
    /\ file_x = None /\ file_misfits = None
    /\ nlinks = 0
    /\ \A t \in 1 .. NTargets : MaskOf(x)[t]

\* C13: a Forbidden raised by preconstrain stays inside solve: the candidate
\* is neither evaluated nor persisted, the iteration index stays, and the
\* proposal made next for the same iteration is a fresh one, owing nothing to
\* the candidate that was rejected.
C13_ForbiddenRetriesAfresh ==
    [][(pc = "draw" /\ ntries_preconstrain' = ntries_preconstrain + 1)
          => /\ pc' = "draw"
             /\ NothingRecorded
             /\ Candidates' = Candidates]_vars

RECURSIVE Flatten(_)
Flatten(q) == IF q = <<>> THEN <<>> ELSE Head(q) \o Flatten(Tail(q))

\* the values of the records of the samples in q, as dump_problem_data
\* writes them: the run's records are those of dumped
RecordsX(q) == Flatten([k \in 1 .. Len(q) |-> AsSeq(dumped[q[k] + 1].x)])

RecordsMisfits(q) ==
    Flatten([k \in 1 .. Len(q) |-> AsSeq(dumped[q[k] + 1].ms) \o AsSeq(dumped[q[k] + 1].ns)])

\* C14: harvest on a run directory that has a harvest directory raises
\* DirectoryAlreadyExists when force is false, leaving that directory as it
\* is; with force the old directory is removed, and the directory holds at
\* the end the records of the samples selected, and nothing else.
C14_ExistingHarvestDirectory ==
    /\ [][/\ (pc = "loaded" /\ dumpdir /= None /\ ~force)
                => Returns("raised") /\ dumpdir' = dumpdir
          /\ (pc = "loaded" /\ ~(dumpdir /= None /\ ~force)) => dumpdir' = Some(EmptyDir)
          /\ pc = "raised" => FALSE]_vars
    /\ [](pc = "harvested" =>
             /\ dumpdir /= None
             /\ Contents(Get(dumpdir).x) = RecordsX(ibests)
             /\ Contents(Get(dumpdir).misfits) = RecordsMisfits(ibests))

\* a harvest without force refused on a run directory whose harvest directory
\* holds the records of an earlier harvest
C14_Witness ==
    /\ pc = "raised"
    /\ ~force
    /\ dumpdir /= None
    /\ Len(Contents(Get(dumpdir).x)) >= 2 * npar
    /\ Len(dumped) = MaxModels

(***************************************************************************)
(* go and process_event (lines 1324-1418): one pipeline per event, the     *)
(* event indices mapped over nparallel workers.  A run directory is a      *)
(* record of what it holds; users[d] collects the workers that created,    *)
(* removed or wrote run directory d.                                       *)
(***************************************************************************)
\* the events of the dataset: whether the problem of the event has targets,
\* and the availability of their data
EventKinds ==
    {[targets |-> FALSE, data |-> "clean"]}
    \cup {[targets |-> TRUE, data |-> d] : d \in ProblemData}

EventLists == UNION {[1 .. n -> EventKinds] : n \in 0 .. MaxEvents}

nevents == Len(events)

\* config.rundir_template % dict(problem_name=problem.name): the problem of
\* every event has a name, and so a run directory, of its own
RundirOf(event) == event

\* mutant of EventOf: every worker takes the first event
EventOf_First(ievent) == 1

\* event = events[ievent]
EventOf(ievent) == ievent

NewRundir == [info |-> FALSE, x |-> None, misfits |-> None, harvest |-> FALSE]

\* a run directory left by an earlier run
OldRundir == [info |-> TRUE, x |-> Some(<<2>>), misfits |-> None, harvest |-> TRUE]

Running == {"check", "rundir", "solve", "harvest"}

GoInit ==
    /\ pc = "go"
    /\ problem = NewProblem("clean", NTargets, NBootstrap)
    /\ rstream = Stream23
    /\ ndraws = 0
    /\ WeightsIdle
    /\ SolveIdle
    /\ AnalyseIdle
    /\ HarvestIdle
    /\ file_x = None
    /\ file_misfits = None
    /\ go_pc = "start"
    /\ g_data \in [force : BOOLEAN, nparallel : {1, 2}]
    /\ events \in EventLists
    /\ ev_pc = [i \in 1 .. nevents |-> "waiting"]
    /\ rundirs \in [1 .. nevents -> {None, Some(OldRundir)}]
    /\ users = [d \in 1 .. nevents |-> {}]

GoRest == UNCHANGED <<pc, problem, args, locals, files, weights_vars, analyse_vars, harvest_vars>>

\* raise GrondError('no events found')
GoNoEvents ==
    /\ go_pc = "start"
    /\ nevents = 0
    /\ go_pc' = "raised"
    /\ UNCHANGED <<g_data, events, ev_pc, rundirs, users>>
    /\ GoRest

GoStart ==
    /\ go_pc = "start"
    /\ nevents > 0
    /\ go_pc' = "running"
    /\ UNCHANGED <<g_data, events, ev_pc, rundirs, users>>
    /\ GoRest

\* parimap hands the event indices out in order, to nprocs workers at most
Dispatch(ievent) ==
    /\ go_pc = "running"
    /\ ev_pc[ievent] = "waiting"
    /\ \A j \in 1 .. ievent - 1 : ev_pc[j] /= "waiting"
    /\ Cardinality({j \in 1 .. nevents : ev_pc[j] \in Running}) < g_data.nparallel
    /\ ev_pc' = [ev_pc EXCEPT ![ievent] = "check"]
    /\ UNCHANGED <<go_pc, g_data, events, rundirs, users>>
    /\ GoRest

\* an exception leaves process_event: nothing in process_event or go catches
\* it, so it ends the loop over parimap in go
Raised(ievent) ==
    /\ ev_pc' = [ev_pc EXCEPT ![ievent] = "raised"]
    /\ go_pc' = "raised"

\* check_problem(problem) raises GrondError('no targets available')
CheckProblemRaises(ievent) ==
    /\ ev_pc[ievent] = "check"
    /\ ~events[EventOf(ievent)].targets
    /\ Raised(ievent)
    /\ UNCHANGED <<g_data, events, rundirs, users>>
    /\ GoRest

CheckProblem(ievent) ==
    /\ ev_pc[ievent] = "check"
    /\ events[EventOf(ievent)].targets
    /\ ev_pc' = [ev_pc EXCEPT ![ievent] = "rundir"]
    /\ UNCHANGED <<go_pc, g_data, events, rundirs, users>>
    /\ GoRest

\* the run directory exists and force is not set: process_event returns
ProcessSkip(ievent) ==
    /\ ev_pc[ievent] = "rundir"
    /\ rundirs[RundirOf(EventOf(ievent))] /= None
    /\ ~g_data.force
    /\ ev_pc' = [ev_pc EXCEPT ![ievent] = "skipped"]
    /\ UNCHANGED <<go_pc, g_data, events, rundirs, users>>
    /\ GoRest

\* mutant of Prepared: an existing run directory is not removed
Prepared_NoRmtree(old) ==
    IF old = None THEN [NewRundir EXCEPT !.info = TRUE] ELSE [Get(old) EXCEPT !.info = TRUE]

\* the run directory old after shutil.rmtree, if it exists, ensuredir and
\* the dump of config.yaml and of the problem's info
Prepared(old) == [NewRundir EXCEPT !.info = TRUE]

\* the run directory removed if it exists, made, and config.yaml and
\* problem.yaml written to it after analyse (lines 1375-1399)
ProcessPrepare(ievent) ==
    /\ ev_pc[ievent] = "rundir"
    /\ rundirs[RundirOf(EventOf(ievent))] = None \/ g_data.force
    /\ rundirs' = [rundirs EXCEPT ![RundirOf(EventOf(ievent))] = Some(Prepared(@))]
    /\ users' = [users EXCEPT ![RundirOf(EventOf(ievent))] = @ \cup {ievent}]
    /\ ev_pc' = [ev_pc EXCEPT ![ievent] = "solve"]
    /\ UNCHANGED <<go_pc, g_data, events>>
    /\ GoRest

\* what solve leaves in the run directory dir for the draws given: every
\* sample evaluated before the return at line 1006, 1014 or at the end
RECURSIVE SolveDumps(_, _, _, _)
SolveDumps(data, draws, mask, dir) ==
    IF draws = <<>> THEN dir
    ELSE LET e == Evaluate(data, Head(draws))
             new == IsbadMask(e.ms)
         IN IF mask /= None /\ Get(mask) /= new THEN dir
            ELSE IF \A t \in 1 .. NTargets : new[t] THEN dir
            ELSE SolveDumps(data, Tail(draws), Some(new),
                            [dir EXCEPT !.x = DumpX(dir.x, Head(draws)),
                                        !.misfits = DumpMisfits(dir.misfits, e.ms, e.ns)])

\* solve(problem, rundir=rundir, ...): it returns, aborted or not
ProcessSolve(ievent) ==
    /\ ev_pc[ievent] = "solve"
    /\ \E draws \in [1 .. MaxGoIter -> RandomUniform] :
           rundirs' = [rundirs EXCEPT ![RundirOf(EventOf(ievent))] =
                          Some(SolveDumps(events[EventOf(ievent)].data, draws, None, Get(@)))]
    /\ users' = [users EXCEPT ![RundirOf(EventOf(ievent))] = @ \cup {ievent}]
    /\ ev_pc' = [ev_pc EXCEPT ![ievent] = "harvest"]
    /\ UNCHANGED <<go_pc, g_data, events>>
    /\ GoRest

\* harvest(rundir, problem) on a run directory without samples:
\* load_problem_data raises IOError
ProcessHarvestRaises(ievent) ==
    /\ ev_pc[ievent] = "harvest"
    /\ Get(rundirs[RundirOf(EventOf(ievent))]).x = None
    /\ Raised(ievent)
    /\ UNCHANGED <<g_data, events, rundirs, users>>
    /\ GoRest

ProcessHarvest(ievent) ==
    /\ ev_pc[ievent] = "harvest"
    /\ Get(rundirs[RundirOf(EventOf(ievent))]).x /= None
    /\ rundirs' = [rundirs EXCEPT ![RundirOf(EventOf(ievent))] =
                      Some([Get(@) EXCEPT !.harvest = TRUE])]
    /\ users' = [users EXCEPT ![RundirOf(EventOf(ievent))] = @ \cup {ievent}]
    /\ ev_pc' = [ev_pc EXCEPT ![ievent] = "done"]
    /\ UNCHANGED <<go_pc, g_data, events>>
    /\ GoRest

GoReturn ==
    /\ go_pc = "running"
    /\ \A i \in 1 .. nevents : ev_pc[i] \in {"done", "skipped"}
    /\ go_pc' = "returned"
    /\ UNCHANGED <<g_data, events, ev_pc, rundirs, users>>
    /\ GoRest

GoNext ==
    \/ GoNoEvents
    \/ GoStart
    \/ GoReturn
    \/ \E ievent \in 1 .. nevents : Dispatch(ievent)
    \/ \E ievent \in 1 .. nevents : CheckProblemRaises(ievent)
    \/ \E ievent \in 1 .. nevents : CheckProblem(ievent)
    \/ \E ievent \in 1 .. nevents : ProcessSkip(ievent)
    \/ \E ievent \in 1 .. nevents : ProcessPrepare(ievent)
    \/ \E ievent \in 1 .. nevents : ProcessSolve(ievent)
    \/ \E ievent \in 1 .. nevents : ProcessHarvestRaises(ievent)
    \/ \E ievent \in 1 .. nevents : ProcessHarvest(ievent)

SpecGo == GoInit /\ [][GoNext]_vars

\* go has ended and no worker runs
GoEnded ==
    /\ go_pc \in {"raised", "returned"}
    /\ \A i \in 1 .. nevents : ev_pc[i] \notin Running

\* C15: a fatal failure of the pipeline of one event keeps no other event's
\* pipeline from being run: when go has ended, every event has been
\* processed.
C15_EventFailuresAreIsolated ==
    GoEnded => \A i \in 1 .. nevents : ev_pc[i] \in {"done", "skipped", "raised"}

Entries(cm, ci, r, n) == {<<cm[r][j], ci[r][j]>> : j \in Range0(n)}

\* C16: the insertion into a full chain leaves the chain with its previous
\* entries and the new one, less one entry, and no entry left in the chain has
\* a larger misfit in that chain than the entry dropped.
C16_FullChainDropsItsWorst ==
    [][/\ (pc = "eval" /\ pc' = "rank")
             => \A r \in Range0(nchains) :
                    Entries(chains_m', chains_i', r, nlinks')
                    = Entries(chains_m, chains_i, r, nlinks)
                      \cup {<<ChainMisfit(r, x)', iiter>>}
       /\ (pc = "rank" /\ nlinks = 8 * npar + 1)
             => \A r \in Range0(nchains) :
                    LET before == Entries(chains_m, chains_i, r, nlinks)
                        after == Entries(chains_m', chains_i', r, nlinks')
                    IN /\ after \subseteq before
                       /\ Cardinality(before \ after) = 1
                       /\ Cardinality(after) = 8 * npar
                       /\ \A p \in before \ after : \A q \in after : q[1] <= p[1]]_vars

\* full chains that have come to hold different samples: the global chain
\* and a bootstrap chain each dropped an entry the other kept
C16_Witness ==
    /\ IterationComplete
    /\ iiter > 8 * npar
    /\ \E r \in 1 .. NBootstrap :
           /\ {chains_i[0][j] : j \in Range0(nlinks)} \ {chains_i[r][j] : j \in Range0(nlinks)} /= {}
           /\ {chains_i[r][j] : j \in Range0(nlinks)} \ {chains_i[0][j] : j \in Range0(nlinks)} /= {}

\* C18: in the transition phase factor decays from 4.0 at the first iteration
\* of the phase to 1.0 at its last, staying between 1.0 and 4.0; in every
\* other phase it is 1.0.
C18_FactorDecaysFromFourToOne ==
    pc = "draw" =>
        LET k == iiter - niter_inject - niter_uniform
        IN IF 0 <= k /\ k < niter_transition
           THEN /\ factor[2] > 0
                /\ factor[2] <= factor[1] /\ factor[1] <= 4 * factor[2]
                /\ (k = 0 => factor[1] = 4 * factor[2])
                /\ (k = niter_transition - 1 /\ niter_transition > 1 => factor[1] = factor[2])
           ELSE factor[1] = factor[2]

\* C19: the chain a draw from the statistics uses has the smallest accept
\* count of all chains, the accept count of a chain being the number of
\* iterations whose sample was in the chain at the end of its iteration.
C19_DrawFromLeastAcceptedChain ==
    /\ []((pc = "draw" /\ iiter >= niter_inject /\ ~UniformDraw)
             => \A r \in Range0(nchains) : accept_sum[jchoice] <= accept_sum[r])
    /\ [](iiter = 0 /\ pc = "draw" => \A r \in Range0(nchains) : accept_sum[r] = 0)
    /\ [][\A r \in Range0(nchains) :
              IF pc = "rank"
              THEN accept_sum'[r] =
                       accept_sum[r]
                       + (IF \E j \in Range0(nlinks') : chains_i'[r][j] = iiter THEN 1 ELSE 0)
              ELSE accept_sum'[r] = accept_sum[r]]_vars

\* a draw from the statistics of a bootstrap chain, which has kept fewer
\* samples than the global chain
C19_Witness ==
    /\ pc = "draw"
    /\ iiter >= niter_inject
    /\ ~UniformDraw
    /\ jchoice /= 0
    /\ accept_sum[jchoice] < accept_sum[0]
    /\ accept_sum[jchoice] < iiter

\* C20: a candidate is drawn from the statistics only past the inject and
\* uniform phases and with the statistics computed; they are computed at the
\* end of the iterations that leave more than 4*npar entries, and only there
\* (at the resort the entry of the iteration under way is not counted);
\* without them every draw is uniform; once computed they stay.
C20_StatisticsOnlyOnceComputed ==
    /\ []((mbx /= None) = ((IF pc = "rank" THEN nlinks - 1 ELSE nlinks) > 4 * npar))
    /\ [](/\ (mbx = None) = (sbx = None)
          /\ (mbx = None) = (mxs = None)
          /\ (mbx = None) = (covs = None))
    /\ [][/\ mbx /= None => mbx' /= None
          /\ (mbx = None /\ mbx' /= None) => pc = "rank" /\ nlinks' > 4 * npar
          /\ (pc = "draw" /\ iiter >= niter_inject
                 /\ (mbx = None \/ iiter < niter_inject + niter_uniform))
                => x' \in RandomUniform]_vars

\* a draw from statistics computed on chains that are more than half full
\* and not yet full
C20_Witness ==
    /\ pc = "draw"
    /\ mbx /= None
    /\ iiter >= niter_inject + niter_uniform
    /\ nlinks = 4 * npar + 1

(***************************************************************************)
(* Properties of the proposals, of the weeding of harvest and of the       *)
(* records of a run.                                                       *)
(***************************************************************************)
\* the parameter vectors of the live entries of chain r
ChainVectors(r) == [k \in Range0(nlinks) |-> xhist[chains_i[r][k]]]

\* C21: in the 'normal' sampler the standard deviation of the draw around
\* the centre of the chosen chain is that of the entries of that chain (the
\* two variances are compared as fractions, numerator times the square of the
\* other count).
C21_NormalDrawUsesStdOfChosenChain ==
    (pc = "draw" /\ sampler_distribution = "normal" /\ iiter >= niter_inject /\ ~UniformDraw)
        => \A i \in 1 .. npar :
               Get(sbx)[i] * nlinks * nlinks
               = Std(ChainVectors(jchoice), Range0(nlinks))[i]
                 * (nchains * nlinks) * (nchains * nlinks)

\* the global misfits of the best samples of the bootstrap chains
BestMisfits == [k \in 1 .. Len(ibests) |-> gms(problem)[ibests[k]]]

\* g exceeds median + std of BestMisfits: with n values, median m and
\* variance v, g - m > 0 and n^2 (2g - 2m)^2 > 4 n^2 v
ExceedsThreshold(g) ==
    /\ 2 * g > Median2(BestMisfits)
    /\ (2 * g - Median2(BestMisfits)) * (2 * g - Median2(BestMisfits))
       * Len(ibests) * Len(ibests)
       > 4 * Var2(BestMisfits)

\* the bootstrap chains whose best sample exceeds the threshold
Outliers == {k \in 1 .. Len(ibests) : ExceedsThreshold(BestMisfits[k])}

\* C22: with weeding, harvest drops the lists of exactly the bootstrap chains
\* whose best sample has a global misfit above median + std of the global
\* misfits of all chains' best samples; the list of the globally best samples
\* is kept, and so is the list of one bootstrap chain at least.
C22_WeedingDropsOutlierChains ==
    [][(pc = "selected" /\ pc' = "harvested") =>
          LET nb == problem.nbootstrap
              keep == IF weed /= 0 THEN (1 .. nb + 1) \ Outliers ELSE 1 .. nb + 1
              order == SelectSeqBy([k \in 1 .. nb + 1 |-> k], keep)
          IN /\ Len(ibests) = nb
             /\ ibests_list' = [j \in 1 .. Len(order) |-> ibests_list[order[j]]]
             /\ nb + 1 \in keep
             /\ \E k \in 1 .. nb : k \in keep]_vars

\* a harvest with weeding that dropped the list of a bootstrap chain and kept
\* that of another
C22_Witness ==
    /\ pc = "harvested"
    /\ weed = 1
    /\ Len(ibests_list) >= 2
    /\ Len(ibests_list) < problem.nbootstrap + 1
    /\ nbest >= 1

\* C23: with weed = 2 the records harvest persists are those of the pool of
\* the kept lists whose global misfit does not exceed median + std of the
\* global misfits of the bootstrap chains' best samples.
C23_PoolFilteredBySameThreshold ==
    [][(pc = "selected" /\ pc' = "harvested" /\ weed = 2) =>
          ibests' = SelectSeqBy(Concatenate(ibests_list'),
                        {i \in Range0(nmodels) : ~ExceedsThreshold(gms(problem)[i])})]_vars

\* C29: for every weed mode, with nbest >= 1, the sample of the run with the
\* smallest global misfit is among the records harvest persists, so the
\* harvest is never empty.
C29_BestSampleIsHarvested ==
    (pc = "harvested" /\ nbest >= 1)
        => /\ \E j \in 1 .. Len(ibests) :
                  \A i \in Range0(nmodels) : gms(problem)[ibests[j]] <= gms(problem)[i]
           /\ Get(dumpdir).x /= None
           /\ Get(dumpdir).x /= <<>>

\* solve has returned to the worker of ievent before its last iteration: the
\* run directory holds fewer records than the run has iterations
SolveAborted(ievent) ==
    /\ ev_pc[ievent] \in {"harvest", "done"}
    /\ Len(Contents(Get(rundirs[RundirOf(EventOf(ievent))]).x)) < MaxGoIter * npar

\* C24: when solve aborts the run of an event on a changed NaN mask or on
\* all-NaN misfits, process_event harvests nothing for that run: the run
\* directory gets no harvest subdirectory.
C24_AbortedRunIsNotHarvested ==
    \A ievent \in 1 .. nevents :
        SolveAborted(ievent)
            => /\ ev_pc[ievent] /= "done"
               /\ ~Get(rundirs[RundirOf(EventOf(ievent))]).harvest

\* C25: every candidate that solve passes to preconstrain and to evaluate has
\* npar components, in both sampler modes and after Forbidden retries: x
\* holds the candidate while it is evaluated and after a retry.
C25_CandidateHasNparComponents ==
    (pc = "eval" \/ (pc = "draw" /\ ntries_preconstrain > 0)) => Len(x) = npar

\* the records of the iterations completed, as dump_problem_data writes them
HistoryRecordsX == Flatten([k \in 1 .. iiter |-> AsSeq(xhist[k - 1])])

HistoryRecordsMisfits ==
    Flatten([k \in 1 .. iiter |->
                AsSeq(Evaluate(problem.data, xhist[k - 1]).ms)
                \o AsSeq(Evaluate(problem.data, xhist[k - 1]).ns)])

\* C26: with a run directory, between the iterations of solve and after an
\* abort the files x and misfits hold one record for every completed
\* iteration, in order, record i being that of sample-history entry i; every
\* sample index held by a chain is that of a completed iteration, and names
\* the same vector in the history and in the file.
C26_FilesFollowTheSampleHistory ==
    (rundir /\ pc \in {"draw", "done", "aborted"})
        => /\ Contents(file_x) = HistoryRecordsX
           /\ Contents(file_misfits) = HistoryRecordsMisfits
           /\ \A r \in Range0(nchains) : \A j \in Range0(nlinks) :
                  /\ chains_i[r][j] \in Range0(iiter)
                  /\ LoadXs(file_x, npar)[chains_i[r][j]] = xhist[chains_i[r][j]]

\* a run with a run directory whose chains have dropped entries, drawing
\* from the statistics
C26_Witness ==
    /\ rundir
    /\ pc = "draw"
    /\ ~UniformDraw
    /\ iiter > nlinks
    /\ \E r \in Range0(nchains) : chains_i[r][0] /= chains_i[0][0]

\* the sample indices held by chain r
Held(r) == {chains_i[r][j] : j \in Range0(nlinks)}

\* C27: after k completed iterations every chain holds min(k, 8*npar)
\* entries of pairwise distinct sample indices below k, and their misfits are
\* the min(k, 8*npar) smallest, under the weighting of the chain, of the k
\* samples evaluated: no sample left out has a smaller misfit than one held.
C27_ChainHoldsTheSmallestMisfits ==
    IterationComplete =>
        \A r \in Range0(nchains) :
            /\ nlinks = Min(iiter, 8 * npar)
            /\ Cardinality(Held(r)) = nlinks
            /\ Held(r) \subseteq Range0(iiter)
            /\ \A j \in Range0(nlinks) :
                   /\ chains_m[r][j] = ChainMisfit(r, xhist[chains_i[r][j]])
                   /\ \A k \in Range0(iiter) \ Held(r) :
                          chains_m[r][j] <= ChainMisfit(r, xhist[k])

\* full chains that have dropped samples, the bootstrap chain holding a
\* sample that the global chain has dropped
C27_Witness ==
    /\ IterationComplete
    /\ iiter > 8 * npar
    /\ \E r \in Range0(nchains) : Held(r) /= Held(0)
    /\ \E k \in Range0(iiter) \ Held(0) : \E j \in Held(0) : k > j

\* the mask of an evaluation that is NaN for every target
AllNaNMask == [t \in 1 .. NTargets |-> TRUE]

\* C28: solve returns on misfits that are all NaN, the new mask taken over,
\* at its first iteration only; at a later iteration an evaluation that is
\* all NaN differs from the mask kept and solve returns on the
\* inconsistency, the mask kept as it was.
C28_AllNaNAbortOnlyAtFirstIteration ==
    [][(pc = "eval" /\ pc' = "aborted")
          => /\ isbad_mask' = Some(AllNaNMask) => iiter = 0 /\ isbad_mask = None
             /\ (iiter > 0 /\ MaskOf(x) = AllNaNMask)
                    => /\ isbad_mask /= None
                       /\ Get(isbad_mask) /= MaskOf(x)
                       /\ isbad_mask' = isbad_mask]_vars

\* a run aborted after its first iteration on an evaluation that is all NaN
C28_Witness ==
    /\ pc = "aborted"
    /\ iiter >= 1
    /\ MaskOf(x) = AllNaNMask
    /\ isbad_mask /= Some(AllNaNMask)

\* the run directory of the event that worker ievent processes
RundirOfWorker(ievent) == rundirs[RundirOf(EventOf(ievent))]

\* the values of the x records of an earlier run that dir holds: OldRundir's
\* value lies outside the bounds, so no draw of a run equals it
OldRecords(dir) ==
    {k \in 1 .. Len(Contents(dir.x)) : Contents(dir.x)[k] \in SeqRange(Contents(OldRundir.x))}

\* C30: process_event for an event whose run directory exists returns, when
\* force is false, without analyse, solve or harvest and with the directory
\* as it was; with force the directory is removed before the new run writes
\* to it, so a directory in use by a run holds no record of an earlier run.
C30_ExistingRundirSkippedOrReplaced ==
    /\ [][\A ievent \in 1 .. nevents :
             /\ (ev_pc[ievent] = "rundir" /\ RundirOfWorker(ievent) /= None /\ ~g_data.force)
                    => /\ ev_pc'[ievent] \in {"rundir", "skipped"}
                       /\ RundirOfWorker(ievent)' = RundirOfWorker(ievent)
             /\ ev_pc[ievent] = "skipped"
                    => /\ ev_pc'[ievent] = "skipped"
                       /\ RundirOfWorker(ievent)' = RundirOfWorker(ievent)
             /\ (ev_pc[ievent] = "rundir" /\ ev_pc'[ievent] = "solve")
                    => /\ RundirOfWorker(ievent) = None \/ g_data.force
                       /\ RundirOfWorker(ievent)' = Some([NewRundir EXCEPT !.info = TRUE])]_vars
    /\ [](\A ievent \in 1 .. nevents :
             ev_pc[ievent] \in {"solve", "harvest", "done"}
                 => /\ RundirOfWorker(ievent) /= None
                    /\ OldRecords(Get(RundirOfWorker(ievent))) = {})

\* an event skipped, its run directory that of the earlier run, while the
\* run of another event was made
C30_Witness ==
    /\ ~g_data.force
    /\ \E i, j \in 1 .. nevents :
           /\ ev_pc[i] = "skipped"
           /\ RundirOfWorker(i) = Some(OldRundir)
           /\ ev_pc[j] = "done"
           /\ OldRecords(Get(RundirOfWorker(j))) = {}

====
